---- MODULE Spec2Model ----
(***************************************************************************)
(* chick (src/chick.go): resolve a target, launch one lookupIP goroutine   *)
(* per filtered address, each running three concurrent sub-lookups (PTR,   *)
(* ipinfo.io, IRCnet I-line) that write into one Result, collect the       *)
(* Results over a buffered channel and print them, unless interrupted.     *)
(*                                                                         *)
(* Goroutines are interleaved at their accesses to shared memory and at    *)
(* their synchronisation operations; a goroutine's purely local steps are  *)
(* folded into the shared access that follows them.                        *)
(***************************************************************************)
EXTENDS Integers, Sequences, FiniteSets, TLC

VARIABLES
    CLI,         \* [Target, IPv4, IPv6]: the parsed command line
    env,         \* the world of this run: what DNS and the services can answer (see World)
    pc,          \* position of main
    exitCode,    \* -1 while the process runs, then its exit status
    dnsLog,      \* the forward-DNS lookups made so far: TRUE for an answer, FALSE for an error
    ips,         \* main's ips
    idx,         \* position of main's range loop over ips
    totalIPs,    \* main's totalIPs
    wg,          \* main's sync.WaitGroup counter
    lookup,      \* one entry per element of ips: the lookupIP goroutine and its three sub-lookups
    resultChan,  \* buffered contents of resultChan
    chanClosed,  \* resultChan has been closed
    closes,      \* number of close(resultChan) calls executed
    closer,      \* position of the goroutine "wg.Wait(); close(resultChan)"
    collector,   \* position of the goroutine draining resultChan into results
    results,     \* main's results slice
    done,        \* the done channel has been closed
    handler,     \* position of the signal-handling goroutine
    cancelled,   \* the signal handler has cancelled mainCtx
    processed,   \* main's processed
    progress,    \* the progress line currently on the terminal (overwritten in place)
    stdout       \* the lines printed so far, progress line excluded

vars == <<CLI, env, pc, exitCode, dnsLog, ips, idx, totalIPs, wg, lookup, resultChan,
          chanClosed, closes, closer, collector, results, done, handler, cancelled,
          processed, progress, stdout>>

(***************************************************************************)
(* Sizes.                                                                  *)
(***************************************************************************)
\* bound of the model: the longest address list a forward-DNS lookup returns
MaxIPs == 2

\* make(chan Result, 10): the capacity of resultChan
ChanCap == 10

\* bound of the model: by how many the tasks of a long answer exceed ChanCap
Overflow == 1

(***************************************************************************)
(* net.IP: a byte slice of length 0 (nil), 4 or 16.  A 16-byte address is  *)
(* an IPv4 address when it carries the v4-in-v6 prefix.                    *)
(***************************************************************************)
NilIP == [len |-> 0, mapped |-> FALSE, v4 |-> "", v6 |-> ""]

IP4short == [len |-> 4, mapped |-> FALSE, v4 |-> "192.0.2.1", v6 |-> ""]

IP4long == [len |-> 16, mapped |-> TRUE, v4 |-> "198.51.100.7", v6 |-> "::ffff:198.51.100.7"]

IP6 == [len |-> 16, mapped |-> FALSE, v4 |-> "", v6 |-> "2001:db8::1"]

\* ip.To4(): the 4-byte form of an IPv4 address, nil for anything else
To4(ip) ==
    IF ip.len = 4 THEN ip
    ELSE IF ip.len = 16 /\ ip.mapped
         THEN [len |-> 4, mapped |-> FALSE, v4 |-> ip.v4, v6 |-> ""]
         ELSE NilIP

\* ip.String(): dotted quad for IPv4 (either length), the IPv6 text otherwise
IPString(ip) ==
    IF ip.len = 0 THEN "<nil>"
    ELSE IF To4(ip) # NilIP THEN To4(ip).v4
    ELSE ip.v6

\* net.ParseIP: a 16-byte address for an IP literal, nil for anything else
ParseIP(s) ==
    CASE s = "192.0.2.1" -> [len |-> 16, mapped |-> TRUE, v4 |-> "192.0.2.1", v6 |-> "::ffff:192.0.2.1"]
      [] s = "::ffff:198.51.100.7" -> IP4long
      [] s = "2001:db8::1" -> IP6
      [] OTHER -> NilIP

Literals == {"192.0.2.1", "::ffff:198.51.100.7", "2001:db8::1"}

Hostnames == {"example.com"}

Targets == Literals \cup Hostnames

Flags == [IPv4 : BOOLEAN, IPv6 : BOOLEAN]

\* the address lists a forward lookup may return: the non-empty sub-lists of Zone
\* of at most MaxIPs addresses
Zone == <<IP4short, IP6, IP4long>>

RECURSIVE SubLists(_)
SubLists(s) ==
    IF s = <<>> THEN {<<>>}
    ELSE LET rest == SubLists(Tail(s))
         IN rest \cup {<<Head(s)>> \o r : r \in rest}

Answers == {a \in SubLists(Zone) : Len(a) >= 1 /\ Len(a) <= MaxIPs}

\* the answer for a host name with more addresses than resultChan has room for
ManyIPs ==
    [i \in 1..(ChanCap + Overflow) |->
        [len |-> 4, mapped |-> FALSE, v4 |-> "203.0.113." \o ToString(i), v6 |-> ""]]

(***************************************************************************)
(* What the outside world answers.                                         *)
(***************************************************************************)
\* net.LookupAddr: (names, err)
PTRFound == [names |-> <<"host.example.com">>, err |-> ""]

PTRNotFound == [names |-> <<>>, err |-> "no such host"]

PTRAnswers == {PTRFound, PTRNotFound}

\* what httpClient.Do and the body give for https://ipinfo.io/<ip>/json
IPInfoResponses ==
    { [kind |-> "error", ip |-> "", country |-> "", org |-> ""],
      [kind |-> "undecodable", ip |-> "", country |-> "", org |-> ""],
      [kind |-> "json", ip |-> "192.0.2.1", country |-> "US", org |-> "AS64500 Example Org"] }

\* what ilineClient.Do and the body give for https://bot.ircnet.info/api/i-line?q=<ip>
ILineResponses ==
    { [kind |-> "error", status |-> "", response |-> <<>>],
      [kind |-> "undecodable", status |-> "", response |-> <<>>],
      [kind |-> "json", status |-> "FAIL", response |-> <<"irc1.example.net">>],
      [kind |-> "json", status |-> "SUCCESS", response |-> <<>>],
      [kind |-> "json", status |-> "SUCCESS",
       response |-> <<"irc1.example.net", "irc2.example.net">>] }

IPInfoFound == CHOOSE r \in IPInfoResponses : r.kind = "json"

ILineFound == CHOOSE r \in ILineResponses : r.kind = "json" /\ Len(r.response) = 2

\* the textual addresses the services are asked about
Addresses == {IPString(Zone[i]) : i \in DOMAIN Zone}

\* one failure and one success per service
CoarseIPInfo == {r \in IPInfoResponses : r.kind \in {"error", "json"}}

CoarseILine == {r \in ILineResponses : r.kind = "error" \/ r = ILineFound}

\* A world: which answers forward DNS may give, the addresses for which the
\* services can fail (they answer every other address with success), and whether
\* they fail in every way or in one way each
World(dns, flaky, detail) == [dns |-> dns, flaky |-> flaky, detail |-> detail]

\* the answers of forward DNS in world w; <<>> is a failed lookup
DNSAnswers(w) ==
    CASE w.dns = "any" -> Answers \cup {<<>>}
      [] w.dns = "pair" -> {<<Zone[1], Zone[2]>>}
      [] w.dns = "many" -> {ManyIPs}
      [] OTHER -> {<<>>}

\* the answers of net.LookupAddr(ip) in world w
PTRAnswersOf(w, ip) == IF ip \in w.flaky THEN PTRAnswers ELSE {PTRFound}

\* the exchanges with ipinfo.io about ip in world w
IPInfoResponsesOf(w, ip) ==
    IF ip \notin w.flaky THEN {IPInfoFound}
    ELSE IF w.detail = "full" THEN IPInfoResponses ELSE CoarseIPInfo

\* the exchanges with bot.ircnet.info about ip in world w
ILineResponsesOf(w, ip) ==
    IF ip \notin w.flaky THEN {ILineFound}
    ELSE IF w.detail = "full" THEN ILineResponses ELSE CoarseILine

(***************************************************************************)
(* getIPInfo and getILineInfo as functions of the HTTP exchange.  A nil    *)
(* error is "", a nil pointer or slice is <<>>.                            *)
(***************************************************************************)
getIPInfo(resp) ==
    IF resp.kind = "error" THEN [info |-> <<>>, err |-> "request failed"]
    ELSE IF resp.kind = "undecodable" THEN [info |-> <<>>, err |-> "invalid character"]
    ELSE [info |-> <<[IP |-> resp.ip, Country |-> resp.country, Org |-> resp.org]>>,
          err |-> ""]

\* a getILineInfo that does not look at status
getILineInfoAnyStatus(resp) ==
    IF resp.kind = "error" THEN [servers |-> <<>>, err |-> "request failed"]
    ELSE IF resp.kind = "undecodable" THEN [servers |-> <<>>, err |-> "invalid character"]
    ELSE [servers |-> resp.response, err |-> ""]

getILineInfo(resp) ==
    IF resp.kind = "error" THEN [servers |-> <<>>, err |-> "request failed"]
    ELSE IF resp.kind = "undecodable" THEN [servers |-> <<>>, err |-> "invalid character"]
    ELSE IF resp.status # "SUCCESS"
         THEN [servers |-> <<>>, err |-> "failed to get I-line info"]
         ELSE [servers |-> resp.response, err |-> ""]

(***************************************************************************)
(* Result and the lookupIP goroutine.  Result.Error is the sequence of the *)
(* "; "-separated fragments of its message; <<>> is a nil error.           *)
(***************************************************************************)
ZeroResult ==
    [IP |-> "", PTR |-> <<>>, IPInfo |-> <<>>, ILine |-> <<>>, IsIPv6 |-> FALSE,
     Error |-> <<>>]

Fragment(what, err) == [what |-> what, err |-> err]

NoAnswer == [kind |-> "pending"]

\* a lookupIP goroutine that has not been created
IdleTask ==
    [pc |-> "idle", result |-> ZeroResult, wgInternal |-> 0,
     ptr |-> "idle", org |-> "idle", iline |-> "idle",
     ptrAns |-> NoAnswer, orgResp |-> NoAnswer, ilineResp |-> NoAnswer,
     orgSeen |-> <<>>, ilineSeen |-> <<>>]

\* a lookupIP whose Result is built without its IsIPv6 field
StartedTaskUntagged(ip, isIPv6) ==
    [IdleTask EXCEPT !.pc = "wait",
                     !.result = [ZeroResult EXCEPT !.IP = ip],
                     !.wgInternal = 3,
                     !.ptr = "call", !.org = "call", !.iline = "call"]

\* lookupIP(ctx, ip, isIPv6, ...) up to wgInternal.Wait() (lines 145-189): the
\* Result, wgInternal.Add(3), and the three sub-lookups started
StartedTask(ip, isIPv6) ==
    [IdleTask EXCEPT !.pc = "wait",
                     !.result = [ZeroResult EXCEPT !.IP = ip, !.IsIPv6 = isIPv6],
                     !.wgInternal = 3,
                     !.ptr = "call", !.org = "call", !.iline = "call"]

\* a PTR goroutine that assigns a fresh Result on failure
PTRStoreFresh(result, ans) ==
    IF ans.err # ""
    THEN [ZeroResult EXCEPT !.IP = result.IP, !.IsIPv6 = result.IsIPv6,
                            !.Error = <<Fragment("error looking up PTR records", ans.err)>>]
    ELSE [result EXCEPT !.PTR = ans.names]

\* a PTR goroutine that wraps its error without testing it
PTRStoreUnchecked(result, ans) ==
    [result EXCEPT !.PTR = ans.names,
                   !.Error = <<Fragment("error looking up PTR records", ans.err)>>]

\* the PTR goroutine's write to result
PTRStore(result, ans) ==
    IF ans.err # ""
    THEN [result EXCEPT !.Error = <<Fragment("error looking up PTR records", ans.err)>>]
    ELSE [result EXCEPT !.PTR = ans.names]

\* fmt.Errorf("%v; <what>: %v", seen, err)
ErrorAppend(seen, what, err) == seen \o <<Fragment(what, err)>>

\* fmt.Errorf("<what>: %v", err)
ErrorNew(what, err) == <<Fragment(what, err)>>

\* a Wait that returns as soon as one sub-lookup has finished
JoinedAfterFirst(t) == t.wgInternal < 3

\* wgInternal.Wait() returns
Joined(t) == t.wgInternal = 0

\* a filter without its default
KeepOnlyFlagged(flags, isIPv6) ==
    \/ flags.IPv4 /\ ~isIPv6
    \/ flags.IPv6 /\ isIPv6

\* the address-family filter of main's launch loop
Keep(flags, isIPv6) ==
    \/ flags.IPv4 /\ ~isIPv6
    \/ flags.IPv6 /\ isIPv6
    \/ ~flags.IPv4 /\ ~flags.IPv6

\* a printResult that prints nothing but the error of a Result that has one
printResultErrorAlone(result) ==
    <<[line |-> "Record", type |-> IF result.IsIPv6 THEN "AAAA" ELSE "A", text |-> result.IP]>>
    \o (IF result.Error # <<>>
        THEN <<[line |-> "Error", type |-> "", text |-> result.Error]>>
        ELSE (IF Len(result.PTR) > 0
              THEN <<[line |-> "PTR Records", type |-> "", text |-> result.PTR]>> ELSE <<>>)
             \o (IF result.IPInfo # <<>>
                 THEN <<[line |-> "Country", type |-> "", text |-> result.IPInfo[1].Country],
                        [line |-> "Organization", type |-> "", text |-> result.IPInfo[1].Org]>>
                 ELSE <<>>)
             \o (IF Len(result.ILine) > 0
                 THEN <<[line |-> "I-Line Servers", type |-> "", text |-> result.ILine]>>
                 ELSE <<>>))
    \o <<[line |-> "", type |-> "", text |-> ""]>>

(***************************************************************************)
(* printResult: the lines one Result prints.                               *)
(***************************************************************************)
printResult(result) ==
    <<[line |-> "Record", type |-> IF result.IsIPv6 THEN "AAAA" ELSE "A", text |-> result.IP]>>
    \o (IF Len(result.PTR) > 0
        THEN <<[line |-> "PTR Records", type |-> "", text |-> result.PTR]>> ELSE <<>>)
    \o (IF result.IPInfo # <<>>
        THEN <<[line |-> "Country", type |-> "", text |-> result.IPInfo[1].Country],
               [line |-> "Organization", type |-> "", text |-> result.IPInfo[1].Org]>>
        ELSE <<>>)
    \o (IF Len(result.ILine) > 0
        THEN <<[line |-> "I-Line Servers", type |-> "", text |-> result.ILine]>> ELSE <<>>)
    \o (IF result.Error # <<>>
        THEN <<[line |-> "Error", type |-> "", text |-> result.Error]>> ELSE <<>>)
    \o <<[line |-> "", type |-> "", text |-> ""]>>

RECURSIVE printAll(_)
printAll(rs) == IF rs = <<>> THEN <<>> ELSE printResult(Head(rs)) \o printAll(Tail(rs))

Notice(text) == [line |-> "Notice", type |-> "", text |-> text]

\* the red line of a fatal error
Fatal(label, err) == [line |-> label, type |-> "fatal", text |-> err]

(***************************************************************************)
(* Initial states: the command line and the world, nothing run yet.        *)
(***************************************************************************)
InitWith(targets, flags, world) ==
    /\ CLI \in [Target : targets, IPv4 : BOOLEAN, IPv6 : BOOLEAN]
    /\ [IPv4 |-> CLI.IPv4, IPv6 |-> CLI.IPv6] \in flags
    /\ env = world
    /\ pc = "validate"
    /\ exitCode = -1
    /\ dnsLog = <<>>
    /\ ips = <<>>
    /\ idx = 0
    /\ totalIPs = 0
    /\ wg = 0
    /\ lookup = <<>>
    /\ resultChan = <<>>
    /\ chanClosed = FALSE
    /\ closes = 0
    /\ closer = "idle"
    /\ collector = "idle"
    /\ results = <<>>
    /\ done = FALSE
    /\ handler = "idle"
    /\ cancelled = FALSE
    /\ processed = 0
    /\ progress = [text |-> "", n |-> 0, of |-> 0]
    /\ stdout = <<>>

\* every target and flag; DNS answers of up to MaxIPs addresses; the services can
\* fail for the first address of the zone
Init == InitWith(Targets, Flags, World("any", {IPString(Zone[1])}, "coarse"))

\* one literal address, every answer of every service
InitTask == InitWith({"192.0.2.1"}, Flags, World("none", Addresses, "full"))

\* a host name with two addresses, the services can fail for both
InitPair ==
    InitWith(Hostnames, {[IPv4 |-> FALSE, IPv6 |-> FALSE]},
             World("pair", Addresses, "coarse"))

\* lookupIP at its send (line 190) after three successful sub-lookups
JoinedTask(ip, isIPv6) ==
    [StartedTask(ip, isIPv6) EXCEPT
        !.pc = "send", !.wgInternal = 0,
        !.ptr = "done", !.org = "done", !.iline = "done",
        !.ptrAns = PTRFound, !.orgResp = IPInfoFound, !.ilineResp = ILineFound,
        !.result = [@ EXCEPT !.PTR = PTRFound.names,
                             !.IPInfo = getIPInfo(IPInfoFound).info,
                             !.ILine = getILineInfo(ILineFound).servers]]

\* A run over the long answer at the moment resultChan is full: the first ChanCap
\* tasks have sent and returned, the others are at their send, the closer and the
\* collector have been started and the collector has not received yet, main is in
\* its select loop.
InitBacklog ==
    LET task == [i \in DOMAIN ManyIPs |-> JoinedTask(IPString(ManyIPs[i]), To4(ManyIPs[i]) = NilIP)]
    IN
    /\ CLI = [Target |-> "example.com", IPv4 |-> FALSE, IPv6 |-> FALSE]
    /\ env = World("many", {}, "coarse")
    /\ pc = "select"
    /\ exitCode = -1
    /\ dnsLog = <<TRUE, TRUE>>
    /\ ips = ManyIPs
    /\ idx = Len(ManyIPs) + 1
    /\ totalIPs = Len(ManyIPs)
    /\ wg = Overflow
    /\ lookup = [i \in DOMAIN ManyIPs |->
                    IF i <= ChanCap THEN [task[i] EXCEPT !.pc = "done"] ELSE task[i]]
    /\ resultChan = [i \in 1..ChanCap |-> task[i].result]
    /\ chanClosed = FALSE
    /\ closes = 0
    /\ closer = "wait"
    /\ collector = "recv"
    /\ results = <<>>
    /\ done = FALSE
    /\ handler = "wait"
    /\ cancelled = FALSE
    /\ processed = 0
    /\ progress = [text |-> "Checking records... Please wait", n |-> 0, of |-> 0]
    /\ stdout = <<>>

\* every target and flag, a host name having one address of each family, the
\* services can fail for the first; and the runs over the long answer from the
\* full channel on
InitLive ==
    \/ InitWith(Targets, Flags, World("pair", {IPString(Zone[1])}, "coarse"))
    \/ InitBacklog

\* the process is alive
Running == pc # "exit"

\* an exit that reports success whatever happened
HaltZero(code) ==
    /\ pc' = "exit"
    /\ exitCode' = 0
    /\ UNCHANGED <<CLI, env, ips, idx, totalIPs, wg, lookup, resultChan, chanClosed, closes,
                   closer, collector, results, done, handler, cancelled, processed>>

\* os.Exit, a panic or main's return: the process ends with status `code` and no
\* goroutine runs any more (nor sees the deferred cancel() of a return from main)
Halt(code) ==
    /\ pc' = "exit"
    /\ exitCode' = code
    /\ UNCHANGED <<CLI, env, ips, idx, totalIPs, wg, lookup, resultChan, chanClosed, closes,
                   closer, collector, results, done, handler, cancelled, processed>>

(***************************************************************************)
(* main, up to the select loop.                                            *)
(***************************************************************************)
\* a validateInput that asks DNS before it tries the literal
validateInputLookupFirst(input, found) ==
    IF ~found THEN [err |-> "invalid domain or IP address", lookups |-> 1]
    ELSE [err |-> "", lookups |-> 1]

\* validateInput (lines 220-228): its error ("" is nil) and the number of forward
\* lookups it made, given whether net.LookupHost finds the input
validateInput(input, found) ==
    IF ParseIP(input) # NilIP THEN [err |-> "", lookups |-> 0]
    ELSE IF ~found THEN [err |-> "invalid domain or IP address", lookups |-> 1]
    ELSE [err |-> "", lookups |-> 1]

\* lines 231-250: parse, validate, then build the client, the context and the
\* signal handler
Validate ==
    /\ pc = "validate"
    /\ \E a \in DNSAnswers(env) :
         LET v == validateInput(CLI.Target, a # <<>>) IN
         /\ dnsLog' = IF v.lookups = 1 THEN Append(dnsLog, a # <<>>) ELSE dnsLog
         /\ IF v.err # ""
            THEN /\ stdout' = Append(stdout, Fatal("Error", v.err))
                 /\ Halt(1)
                 /\ UNCHANGED progress
            ELSE /\ pc' = "resolve"
                 /\ handler' = "wait"
                 /\ UNCHANGED <<CLI, env, exitCode, ips, idx, totalIPs, wg, lookup,
                                resultChan, chanClosed, closes, closer, collector, results,
                                done, cancelled, processed, progress, stdout>>

\* lines 252-268: the literal address, or net.LookupIP's answer
Resolve ==
    /\ pc = "resolve"
    /\ LET ip == ParseIP(CLI.Target) IN
       \E a \in (IF ip # NilIP THEN {<<ip>>} ELSE DNSAnswers(env)) :
         /\ dnsLog' = IF ip # NilIP THEN dnsLog ELSE Append(dnsLog, a # <<>>)
         /\ IF a = <<>>
            THEN /\ stdout' = Append(stdout, Fatal("Error looking up IP for domain",
                                                     "no such host"))
                 /\ Halt(1)
                 /\ UNCHANGED progress
            ELSE /\ ips' = a
                 /\ idx' = 1
                 /\ lookup' = [i \in 1..Len(a) |-> IdleTask]
                 /\ pc' = "launch"
                 /\ UNCHANGED <<CLI, env, exitCode, totalIPs, wg, resultChan, chanClosed,
                                closes, closer, collector, results, done, handler,
                                cancelled, processed, progress, stdout>>

\* lines 271-278: one iteration of the launch loop.  The new goroutine's first
\* steps touch nothing shared and are taken with the go statement.
Launch ==
    /\ pc = "launch"
    /\ idx <= Len(ips)
    /\ LET isIPv6 == To4(ips[idx]) = NilIP IN
       IF Keep([IPv4 |-> CLI.IPv4, IPv6 |-> CLI.IPv6], isIPv6)
       THEN /\ totalIPs' = totalIPs + 1
            /\ wg' = wg + 1
            /\ lookup' = [lookup EXCEPT ![idx] = StartedTask(IPString(ips[idx]), isIPv6)]
       ELSE UNCHANGED <<totalIPs, wg, lookup>>
    /\ idx' = idx + 1
    /\ UNCHANGED <<CLI, env, pc, exitCode, dnsLog, ips, resultChan, chanClosed, closes,
                   closer, collector, results, done, handler, cancelled, processed, progress,
                   stdout>>

\* lines 280-295: start the closer and the collector, print the first progress text
Spawn ==
    /\ pc = "launch"
    /\ idx > Len(ips)
    /\ closer' = "wait"
    /\ collector' = "recv"
    /\ progress' = [text |-> "Checking records... Please wait", n |-> 0, of |-> 0]
    /\ pc' = "select"
    /\ UNCHANGED <<CLI, env, exitCode, dnsLog, ips, idx, totalIPs, wg, lookup, resultChan,
                   chanClosed, closes, results, done, handler, cancelled, processed, stdout>>

(***************************************************************************)
(* lookupIP (lines 144-191) and its three anonymous goroutines.            *)
(***************************************************************************)
Tasks == DOMAIN lookup

MainFrame ==
    UNCHANGED <<CLI, env, pc, exitCode, dnsLog, ips, idx, totalIPs, closer, collector,
                results, done, handler, cancelled, processed, progress, stdout, chanClosed,
                closes>>

\* lines 151-159: net.LookupAddr returns and the goroutine stores its outcome
PTRLookup(i) ==
    /\ Running
    /\ lookup[i].ptr = "call"
    /\ \E ans \in PTRAnswersOf(env, lookup[i].result.IP) :
         lookup' = [lookup EXCEPT ![i] =
                      [@ EXCEPT !.ptr = "done", !.ptrAns = ans,
                                !.result = PTRStore(lookup[i].result, ans),
                                !.wgInternal = @ - 1]]
    /\ UNCHANGED <<wg, resultChan>>
    /\ MainFrame

\* lines 163-172: getIPInfo returns; success stores IPInfo, failure tests result.Error
IPInfoReturn(i) ==
    /\ Running
    /\ lookup[i].org = "call"
    /\ \E resp \in IPInfoResponsesOf(env, lookup[i].result.IP) :
         LET r == getIPInfo(resp) IN
         lookup' = [lookup EXCEPT ![i] =
                      IF r.err = ""
                      THEN [@ EXCEPT !.org = "done", !.orgResp = resp,
                                     !.result = [@ EXCEPT !.IPInfo = r.info],
                                     !.wgInternal = @ - 1]
                      ELSE [@ EXCEPT !.orgResp = resp,
                                     !.org = IF lookup[i].result.Error # <<>>
                                             THEN "load" ELSE "new"]]
    /\ UNCHANGED <<wg, resultChan>>
    /\ MainFrame

\* line 166: fmt.Errorf's argument result.Error is read
IPInfoLoad(i) ==
    /\ Running
    /\ lookup[i].org = "load"
    /\ lookup' = [lookup EXCEPT ![i] =
                    [@ EXCEPT !.org = "append", !.orgSeen = lookup[i].result.Error]]
    /\ UNCHANGED <<wg, resultChan>>
    /\ MainFrame

\* lines 166 and 168: result.Error is assigned
IPInfoStore(i) ==
    /\ Running
    /\ lookup[i].org \in {"append", "new"}
    /\ LET err == getIPInfo(lookup[i].orgResp).err IN
       lookup' = [lookup EXCEPT ![i] =
                    [@ EXCEPT !.org = "done",
                              !.result = [@ EXCEPT !.Error =
                                  IF lookup[i].org = "append"
                                  THEN ErrorAppend(lookup[i].orgSeen,
                                                   "error fetching IP info", err)
                                  ELSE ErrorNew("error fetching IP info", err)],
                              !.wgInternal = @ - 1]]
    /\ UNCHANGED <<wg, resultChan>>
    /\ MainFrame

\* lines 177-186: getILineInfo returns; success stores ILine, failure tests result.Error
ILineReturn(i) ==
    /\ Running
    /\ lookup[i].iline = "call"
    /\ \E resp \in ILineResponsesOf(env, lookup[i].result.IP) :
         LET r == getILineInfo(resp) IN
         lookup' = [lookup EXCEPT ![i] =
                      IF r.err = ""
                      THEN [@ EXCEPT !.iline = "done", !.ilineResp = resp,
                                     !.result = [@ EXCEPT !.ILine = r.servers],
                                     !.wgInternal = @ - 1]
                      ELSE [@ EXCEPT !.ilineResp = resp,
                                     !.iline = IF lookup[i].result.Error # <<>>
                                               THEN "load" ELSE "new"]]
    /\ UNCHANGED <<wg, resultChan>>
    /\ MainFrame

\* line 180: fmt.Errorf's argument result.Error is read
ILineLoad(i) ==
    /\ Running
    /\ lookup[i].iline = "load"
    /\ lookup' = [lookup EXCEPT ![i] =
                    [@ EXCEPT !.iline = "append", !.ilineSeen = lookup[i].result.Error]]
    /\ UNCHANGED <<wg, resultChan>>
    /\ MainFrame

\* lines 180 and 182: result.Error is assigned
ILineStore(i) ==
    /\ Running
    /\ lookup[i].iline \in {"append", "new"}
    /\ LET err == getILineInfo(lookup[i].ilineResp).err IN
       lookup' = [lookup EXCEPT ![i] =
                    [@ EXCEPT !.iline = "done",
                              !.result = [@ EXCEPT !.Error =
                                  IF lookup[i].iline = "append"
                                  THEN ErrorAppend(lookup[i].ilineSeen,
                                                   "error fetching I-line info", err)
                                  ELSE ErrorNew("error fetching I-line info", err)],
                              !.wgInternal = @ - 1]]
    /\ UNCHANGED <<wg, resultChan>>
    /\ MainFrame

\* a lookupIP whose wg.Done() is not deferred but called before the send
TaskJoinDone(i) ==
    /\ Running
    /\ lookup[i].pc = "wait"
    /\ Joined(lookup[i])
    /\ lookup' = [lookup EXCEPT ![i] = [@ EXCEPT !.pc = "send"]]
    /\ wg' = wg - 1
    /\ UNCHANGED resultChan
    /\ MainFrame

\* line 189: wgInternal.Wait() returns
TaskJoin(i) ==
    /\ Running
    /\ lookup[i].pc = "wait"
    /\ Joined(lookup[i])
    /\ lookup' = [lookup EXCEPT ![i] = [@ EXCEPT !.pc = "send"]]
    /\ UNCHANGED <<wg, resultChan>>
    /\ MainFrame

\* line 190: resultChan <- result; a send on a closed channel panics
TaskSend(i) ==
    /\ Running
    /\ lookup[i].pc = "send"
    /\ IF chanClosed
       THEN /\ stdout' = Append(stdout, Notice("panic: send on closed channel"))
            /\ Halt(2)
            /\ UNCHANGED <<dnsLog, progress>>
       ELSE /\ Len(resultChan) < ChanCap
            /\ resultChan' = Append(resultChan, lookup[i].result)
            /\ lookup' = [lookup EXCEPT ![i] = [@ EXCEPT !.pc = "sent"]]
            /\ UNCHANGED <<CLI, env, pc, exitCode, dnsLog, ips, idx, totalIPs, wg, closer,
                           collector, results, done, handler, cancelled, processed, progress,
                           chanClosed, closes, stdout>>

\* line 145: the deferred wg.Done()
TaskDone(i) ==
    /\ Running
    /\ lookup[i].pc = "sent"
    /\ lookup' = [lookup EXCEPT ![i] = [@ EXCEPT !.pc = "done"]]
    /\ wg' = wg - 1
    /\ UNCHANGED resultChan
    /\ MainFrame

(***************************************************************************)
(* The closer, the collector and the signal handler.                       *)
(***************************************************************************)
\* a closer that does not wait for the tasks
CloserCloseNoWait ==
    /\ Running
    /\ closer = "wait"
    /\ chanClosed' = TRUE
    /\ closes' = closes + 1
    /\ closer' = "done"
    /\ UNCHANGED <<CLI, env, pc, exitCode, dnsLog, ips, idx, totalIPs, wg, lookup,
                   resultChan, collector, results, done, handler, cancelled, processed,
                   progress, stdout>>

\* lines 280-283: wg.Wait() returns and resultChan is closed
CloserClose ==
    /\ Running
    /\ closer = "wait"
    /\ wg = 0
    /\ chanClosed' = TRUE
    /\ closes' = closes + 1
    /\ closer' = "done"
    /\ UNCHANGED <<CLI, env, pc, exitCode, dnsLog, ips, idx, totalIPs, wg, lookup,
                   resultChan, collector, results, done, handler, cancelled, processed,
                   progress, stdout>>

\* a collector that puts each received Result in front of the earlier ones
CollectRecvInFront ==
    /\ Running
    /\ collector = "recv"
    /\ resultChan # <<>>
    /\ results' = <<Head(resultChan)>> \o results
    /\ resultChan' = Tail(resultChan)
    /\ UNCHANGED <<CLI, env, pc, exitCode, dnsLog, ips, idx, totalIPs, wg, lookup,
                   chanClosed, closes, closer, collector, done, handler, cancelled,
                   processed, progress, stdout>>

\* a collector that starts to receive only once resultChan has been closed
CollectRecvAfterClose ==
    /\ Running
    /\ collector = "recv"
    /\ chanClosed
    /\ resultChan # <<>>
    /\ results' = Append(results, Head(resultChan))
    /\ resultChan' = Tail(resultChan)
    /\ UNCHANGED <<CLI, env, pc, exitCode, dnsLog, ips, idx, totalIPs, wg, lookup,
                   chanClosed, closes, closer, collector, done, handler, cancelled,
                   processed, progress, stdout>>

\* lines 287-289: one Result is received and appended
CollectRecv ==
    /\ Running
    /\ collector = "recv"
    /\ resultChan # <<>>
    /\ results' = Append(results, Head(resultChan))
    /\ resultChan' = Tail(resultChan)
    /\ UNCHANGED <<CLI, env, pc, exitCode, dnsLog, ips, idx, totalIPs, wg, lookup,
                   chanClosed, closes, closer, collector, done, handler, cancelled,
                   processed, progress, stdout>>

\* lines 287-290: the range ends on the closed, drained channel; close(done)
CollectClose ==
    /\ Running
    /\ collector = "recv"
    /\ resultChan = <<>>
    /\ chanClosed
    /\ done' = TRUE
    /\ collector' = "done"
    /\ UNCHANGED <<CLI, env, pc, exitCode, dnsLog, ips, idx, totalIPs, wg, lookup,
                   resultChan, chanClosed, closes, closer, results, handler, cancelled,
                   processed, progress, stdout>>

\* lines 247-248: a signal arrives on sigChan and the handler prints its line
SignalReceive ==
    /\ Running
    /\ handler = "wait"
    /\ handler' = "cancel"
    /\ stdout' = Append(stdout, Notice("Interrupt received, shutting down..."))
    /\ UNCHANGED <<CLI, env, pc, exitCode, dnsLog, ips, idx, totalIPs, wg, lookup,
                   resultChan, chanClosed, closes, closer, collector, results, done,
                   cancelled, processed, progress>>

\* line 249: cancel()
SignalCancel ==
    /\ Running
    /\ handler = "cancel"
    /\ handler' = "done"
    /\ cancelled' = TRUE
    /\ UNCHANGED <<CLI, env, pc, exitCode, dnsLog, ips, idx, totalIPs, wg, lookup,
                   resultChan, chanClosed, closes, closer, collector, results, done,
                   processed, progress, stdout>>

(***************************************************************************)
(* main's select loop (lines 297-313).  A select with several ready cases  *)
(* takes any one of them.                                                  *)
(***************************************************************************)
\* the cases of the select that can proceed; the ticker may have fired at any time
SelectReady ==
    (IF cancelled THEN {"ctx"} ELSE {}) \cup (IF done THEN {"done"} ELSE {}) \cup {"tick"}

\* a ctx case that is taken only once the collector has finished
MainCancelledAfterDone ==
    /\ pc = "select"
    /\ "ctx" \in SelectReady
    /\ done
    /\ stdout' = Append(stdout, Notice("Operation cancelled"))
    /\ Halt(0)
    /\ UNCHANGED <<dnsLog, progress>>

\* lines 300-302
MainCancelled ==
    /\ pc = "select"
    /\ "ctx" \in SelectReady
    /\ stdout' = Append(stdout, Notice("Operation cancelled"))
    /\ Halt(0)
    /\ UNCHANGED <<dnsLog, progress>>

\* lines 303-308
MainDone ==
    /\ pc = "select"
    /\ "done" \in SelectReady
    /\ progress' = [text |-> "", n |-> 0, of |-> 0]
    /\ stdout' = stdout \o printAll(results)
    /\ Halt(0)
    /\ UNCHANGED dnsLog

\* a tick that shows how many Results are still to come
MainTickRemaining ==
    /\ pc = "select"
    /\ "tick" \in SelectReady
    /\ processed' = totalIPs - Len(results)
    /\ progress' = [text |-> "Checking records... completed",
                    n |-> totalIPs - Len(results), of |-> totalIPs]
    /\ UNCHANGED <<CLI, env, pc, exitCode, dnsLog, ips, idx, totalIPs, wg, lookup,
                   resultChan, chanClosed, closes, closer, collector, results, done,
                   handler, cancelled, stdout>>

\* lines 309-311
MainTick ==
    /\ pc = "select"
    /\ "tick" \in SelectReady
    /\ processed' = Len(results)
    /\ progress' = [text |-> "Checking records... completed", n |-> Len(results),
                    of |-> totalIPs]
    /\ UNCHANGED <<CLI, env, pc, exitCode, dnsLog, ips, idx, totalIPs, wg, lookup,
                   resultChan, chanClosed, closes, closer, collector, results, done,
                   handler, cancelled, stdout>>

Next ==
    \/ Validate
    \/ Resolve
    \/ Launch
    \/ Spawn
    \/ \E i \in Tasks : PTRLookup(i)
    \/ \E i \in Tasks : IPInfoReturn(i)
    \/ \E i \in Tasks : IPInfoLoad(i)
    \/ \E i \in Tasks : IPInfoStore(i)
    \/ \E i \in Tasks : ILineReturn(i)
    \/ \E i \in Tasks : ILineLoad(i)
    \/ \E i \in Tasks : ILineStore(i)
    \/ \E i \in Tasks : TaskJoin(i)
    \/ \E i \in Tasks : TaskSend(i)
    \/ \E i \in Tasks : TaskDone(i)
    \/ CloserClose
    \/ CollectRecv
    \/ CollectClose
    \/ SignalReceive
    \/ SignalCancel
    \/ MainCancelled
    \/ MainDone
    \/ MainTick

Spec == Init /\ [][Next]_vars

SpecTask == InitTask /\ [][Next]_vars

SpecPair == InitPair /\ [][Next]_vars

(***************************************************************************)
(* Scheduling.  The Go scheduler runs every runnable goroutine sooner or   *)
(* later, and a select whose done or ctx case is ready does not take the   *)
(* ticker's case for ever: the ticker is ready only once per 500ms.  A     *)
(* signal is the user's doing and the ticker's case ends nothing: neither  *)
(* is ever required to happen.                                             *)
(***************************************************************************)
\* a step of main other than a tick
MainStep == Validate \/ Resolve \/ Launch \/ Spawn \/ MainCancelled \/ MainDone

\* a step of a lookupIP goroutine or of one of its sub-lookups
TaskStep(i) ==
    \/ PTRLookup(i)
    \/ IPInfoReturn(i) \/ IPInfoLoad(i) \/ IPInfoStore(i)
    \/ ILineReturn(i) \/ ILineLoad(i) \/ ILineStore(i)
    \/ TaskJoin(i) \/ TaskSend(i) \/ TaskDone(i)

\* a step of any goroutine other than a tick or the arrival of a signal
Progress ==
    \/ MainStep
    \/ \E i \in Tasks : TaskStep(i)
    \/ CloserClose \/ CollectRecv \/ CollectClose
    \/ SignalCancel

\* every goroutine is scheduled and every sub-lookup returns: while some
\* goroutine can take a step, one of them does
SpecLive == InitLive /\ [][Next]_vars /\ WF_vars(Progress)

\* only main is scheduled: no lookupIP goroutine, sub-lookup, closer or collector
\* need ever take a step
SpecMain == InitLive /\ [][Next]_vars /\ WF_vars(MainStep)

(***************************************************************************)
(* Properties of lookupIP.                                                 *)
(***************************************************************************)
Launched == {i \in Tasks : lookup[i].pc # "idle"}

\* the tasks whose Result has been sent on resultChan
HandedOff == {i \in Tasks : lookup[i].pc \in {"sent", "done"}}

\* the Results that have left their tasks, in the order of their sends
InTransit == results \o resultChan

SubLookupsDone(t) == t.ptr = "done" /\ t.org = "done" /\ t.iline = "done"

PTRFailed(t) == t.ptrAns.err # ""

IPInfoFailed(t) == t.orgResp.kind # "json"

ILineFailed(t) == t.ilineResp.kind # "json" \/ t.ilineResp.status # "SUCCESS"

HasFragment(error, what) == \E k \in DOMAIN error : error[k].what = what

\* C1: a task's Result is on the channel (or beyond) only when all three of its
\* sub-lookups have finished, and what was handed off is the task's Result as the
\* sub-lookups left it: exactly one copy, equal to the task's record, and nothing
\* is in transit that no finished task sent.
C1_HandOffAfterAllThree ==
    /\ \A i \in HandedOff :
         /\ SubLookupsDone(lookup[i])
         /\ lookup[i].wgInternal = 0
         /\ Cardinality({k \in DOMAIN InTransit : InTransit[k] = lookup[i].result}) = 1
    /\ Running => Len(InTransit) = Cardinality(HandedOff)
    /\ \A i \in Tasks \ HandedOff :
         \A k \in DOMAIN InTransit : InTransit[k].IP # lookup[i].result.IP

\* a task handed off its Result although one sub-lookup had failed and another
\* succeeded
C1_Witness ==
    \E i \in HandedOff :
        /\ PTRFailed(lookup[i])
        /\ ~IPInfoFailed(lookup[i])
        /\ InTransit # <<>>

\* C2: at hand-off the Result's error holds one fragment for each sub-lookup that
\* failed.
C2_EveryFailureKeepsItsFragment ==
    \A i \in HandedOff :
        LET t == lookup[i] IN
        /\ PTRFailed(t) => HasFragment(t.result.Error, "error looking up PTR records")
        /\ IPInfoFailed(t) => HasFragment(t.result.Error, "error fetching IP info")
        /\ ILineFailed(t) => HasFragment(t.result.Error, "error fetching I-line info")

(***************************************************************************)
(* Properties of the coordinator.                                          *)
(***************************************************************************)
\* the header lines printed so far: one per rendered Result
Rendered == SelectSeq(stdout, LAMBDA l : l.line = "Record")

Printed(text) == \E k \in DOMAIN stdout : stdout[k] = Notice(text)

\* main left the select loop through its done case
CompletedNormally == pc = "exit" /\ exitCode = 0 /\ ~Printed("Operation cancelled")

\* C3, for the runs that launched a task: when main has left its select loop and
\* the context had been cancelled before it did, the cancellation notice was
\* printed and no Result was rendered.
C3_CancelledNeverRenders ==
    (pc = "exit" /\ exitCode = 0 /\ cancelled /\ totalIPs > 0) =>
        /\ Printed("Operation cancelled")
        /\ Rendered = <<>>

\* C4: after the done case, the rendered Results are one per launched task: as
\* many as totalIPs, every launched address among them once, and each printed as
\* printResult prints that task's Result.
C4_RendersEachLaunchedOnce ==
    CompletedNormally =>
        /\ Len(Rendered) = totalIPs
        /\ Len(Rendered) = Cardinality(Launched)
        /\ \A i \in Launched :
             Cardinality({k \in DOMAIN Rendered :
                            Rendered[k] = printResult(lookup[i].result)[1]}) = 1
        /\ \E order \in [1..Len(results) -> Launched] :
             /\ \A k \in DOMAIN results : results[k] = lookup[order[k]].result
             /\ stdout = SelectSeq(stdout, LAMBDA l : l.line = "Notice") \o printAll(results)

\* two Results were rendered after normal completion
C4_Witness == CompletedNormally /\ Len(Rendered) = 2

(***************************************************************************)
(* Containment of sub-lookup failures.                                     *)
(***************************************************************************)
\* the sub-lookup has been started and has not been abandoned: it is at a step of
\* its own that it can take, or it has finished
Proceeding(p) == p \in {"call", "new", "load", "append", "done"}

\* every sub-lookup of every launched task is started and goes on whatever the
\* others did; wgInternal counts the unfinished ones; a finished successful
\* sub-lookup's field holds its answer, whichever of the others failed
SubLookupsIndependent ==
    \A i \in Launched :
        LET t == lookup[i] IN
        /\ t.ptr \in {"call", "done"} /\ Proceeding(t.org) /\ Proceeding(t.iline)
        /\ t.wgInternal = Cardinality({g \in {"ptr", "org", "iline"} :
                             \/ g = "ptr" /\ t.ptr # "done"
                             \/ g = "org" /\ t.org # "done"
                             \/ g = "iline" /\ t.iline # "done"})
        /\ (t.ptr = "done" /\ ~PTRFailed(t)) => t.result.PTR = t.ptrAns.names
        /\ (t.org = "done" /\ ~IPInfoFailed(t)) =>
               /\ t.result.IPInfo # <<>>
               /\ t.result.IPInfo[1].Country = t.orgResp.country
               /\ t.result.IPInfo[1].Org = t.orgResp.org
        /\ (t.iline = "done" /\ ~ILineFailed(t)) => t.result.ILine = t.ilineResp.response

\* a step changes the record of at most one launched address, and only by a
\* sub-lookup of that address finishing or advancing
OneRecordPerStep ==
    \A i \in Launched :
        (i \in DOMAIN lookup' /\ lookup'[i].result # lookup[i].result) =>
            /\ lookup[i].pc = "wait"
            /\ \/ lookup'[i].ptr # lookup[i].ptr
               \/ lookup'[i].org # lookup[i].org
               \/ lookup'[i].iline # lookup[i].iline
            /\ \A j \in Tasks \ {i} : lookup'[j] = lookup[j]

\* C5: failures are contained: the three sub-lookups of an address are all started
\* and each records the outcome of its own answer whatever the others did, and the
\* record of one address is changed only by that address's own sub-lookups.
C5_FailuresContained == []SubLookupsIndependent /\ [][OneRecordPerStep]_vars

\* two addresses, both handed off: one with all three sub-lookups failed, the other
\* with all three succeeded and all its fields set
C5_Witness ==
    \E i, j \in HandedOff :
        /\ PTRFailed(lookup[i]) /\ IPInfoFailed(lookup[i]) /\ ILineFailed(lookup[i])
        /\ ~PTRFailed(lookup[j]) /\ ~IPInfoFailed(lookup[j]) /\ ~ILineFailed(lookup[j])
        /\ lookup[j].result.Error = <<>>
        /\ lookup[j].result.PTR # <<>>
        /\ lookup[j].result.IPInfo # <<>>
        /\ lookup[j].result.ILine # <<>>

\* C6: at hand-off the error is nil exactly when all three sub-lookups succeeded,
\* and each data field holds its sub-lookup's answer when that sub-lookup
\* succeeded and is empty when it failed.
C6_FieldsMatchOutcomes ==
    \A i \in HandedOff :
        LET t == lookup[i] IN
        /\ (t.result.Error = <<>>) <=>
               (~PTRFailed(t) /\ ~IPInfoFailed(t) /\ ~ILineFailed(t))
        /\ t.result.PTR = (IF PTRFailed(t) THEN <<>> ELSE t.ptrAns.names)
        /\ t.result.IPInfo =
               (IF IPInfoFailed(t) THEN <<>>
                ELSE <<[IP |-> t.orgResp.ip, Country |-> t.orgResp.country,
                        Org |-> t.orgResp.org]>>)
        /\ t.result.ILine = (IF ILineFailed(t) THEN <<>> ELSE t.ilineResp.response)

\* a Result handed off with all three sub-lookups succeeded: every field set, no error
C6_Witness ==
    \E i \in HandedOff :
        /\ lookup[i].result.Error = <<>>
        /\ Len(lookup[i].result.PTR) = 1
        /\ lookup[i].result.IPInfo # <<>>
        /\ Len(lookup[i].result.ILine) = 2

(***************************************************************************)
(* The network-info sub-lookup.                                            *)
(***************************************************************************)
ILineWhat == "error fetching I-line info"

\* the I-line goroutine's answer is in: a SUCCESS body has filled ILine with its
\* server names and left no I-line fragment; anything else, a status other than
\* SUCCESS like a failed request, leaves ILine empty and takes the error path
ILineOutcome ==
    \A i \in Launched :
        LET t == lookup[i] IN
        t.iline # "call" =>
            IF t.ilineResp.kind = "json" /\ t.ilineResp.status = "SUCCESS"
            THEN /\ t.iline = "done"
                 /\ t.result.ILine = t.ilineResp.response
                 /\ ~HasFragment(t.result.Error, ILineWhat)
            ELSE /\ t.iline \in {"new", "load", "append", "done"}
                 /\ t.result.ILine = <<>>
                 /\ t.iline = "done" => t.result.Error # <<>>

\* the store that ends the error path puts an I-line fragment last in the error;
\* for a status other than SUCCESS it carries getILineInfo's own message
ILineRecords ==
    \A i \in Launched :
        (lookup[i].iline \in {"new", "append"} /\ lookup'[i].iline = "done") =>
            LET e == lookup'[i].result.Error IN
            /\ e # <<>>
            /\ e[Len(e)].what = ILineWhat
            /\ lookup[i].ilineResp.kind = "json" => e[Len(e)].err = "failed to get I-line info"
            /\ lookup[i].ilineResp.kind # "json" => e[Len(e)].err # "failed to get I-line info"
            /\ lookup'[i].result.ILine = <<>>

\* C7: a well-formed answer whose status is not SUCCESS is handled as a failed
\* request is: networkServers stays empty and the sub-lookup records an I-line
\* fragment; a SUCCESS answer sets networkServers to its server names, in order,
\* possibly none, and records no I-line fragment.
C7_StatusDecides == []ILineOutcome /\ [][ILineRecords]_vars

\* a Result handed off after a well-formed FAIL answer: no servers, and the I-line
\* fragment in its error
C7_Witness ==
    \E i \in HandedOff :
        /\ lookup[i].ilineResp.kind = "json"
        /\ lookup[i].ilineResp.status = "FAIL"
        /\ lookup[i].result.ILine = <<>>
        /\ HasFragment(lookup[i].result.Error, ILineWhat)

(***************************************************************************)
(* Properties of main before the fan-out.                                  *)
(***************************************************************************)
FatalPrinted == \E k \in DOMAIN stdout : stdout[k].type = "fatal"

\* a forward lookup, validateInput's or main's, has returned an error
LookupFailed == \E k \in DOMAIN dnsLog : ~dnsLog[k]

\* C8: validation comes before anything else; once a forward lookup has failed,
\* in validation or in resolution, the fatal line is printed and the process has
\* exited with status 1, no task was launched and nothing was rendered; and the
\* exit status is 1 only then: every other run, whatever its sub-lookups did and
\* interrupted or not, exits 0.
C8_OnlyFatalErrorsExitNonZero ==
    /\ LookupFailed <=> FatalPrinted
    /\ LookupFailed => ~dnsLog[Len(dnsLog)] /\ Len(dnsLog) <= 2
    /\ (pc \in {"launch", "select"} /\ CLI.Target \in Hostnames) => dnsLog = <<TRUE, TRUE>>
    /\ pc = "validate" =>
           /\ dnsLog = <<>> /\ stdout = <<>> /\ lookup = <<>> /\ ips = <<>>
           /\ handler = "idle" /\ closer = "idle" /\ collector = "idle"
    /\ FatalPrinted =>
           /\ pc = "exit" /\ exitCode = 1
           /\ Launched = {} /\ totalIPs = 0 /\ wg = 0
           /\ closer = "idle" /\ collector = "idle"
           /\ Rendered = <<>>
           /\ Len(stdout) = 1 \/ (Len(stdout) = 2 /\ Printed("Interrupt received, shutting down..."))
    /\ pc = "exit" => (exitCode = 1 <=> FatalPrinted) /\ exitCode \in {0, 1}
    /\ pc # "exit" => exitCode = -1

\* resolution failed after validation had succeeded: two lookups, status 1
C8_Witness == pc = "exit" /\ exitCode = 1 /\ dnsLog = <<TRUE, FALSE>> /\ Launched = {}

IsIPv4(ip) == ip.len = 4 \/ (ip.len = 16 /\ ip.mapped)

Wanted(ip) ==
    \/ CLI.IPv4 /\ IsIPv4(ip)
    \/ CLI.IPv6 /\ ~IsIPv4(ip)
    \/ ~CLI.IPv4 /\ ~CLI.IPv6

\* C9: of the resolved addresses the launch loop has passed, exactly those the
\* flags ask for have a task; after the loop that is all of ips, and totalIPs
\* counts them.
C9_LaunchedAreTheFiltered ==
    /\ \A i \in DOMAIN ips :
         IF pc \in {"select", "exit"} \/ i < idx
         THEN /\ i \in Launched <=> Wanted(ips[i])
              /\ i \in Launched => lookup[i].result.IP = IPString(ips[i])
         ELSE i \notin Launched
    /\ totalIPs = Cardinality(Launched)
    /\ Launched \subseteq DOMAIN ips

\* -4 alone, an answer with one address of each family: one task
C9_Witness ==
    /\ pc = "select"
    /\ CLI.IPv4 /\ ~CLI.IPv6
    /\ Len(ips) = 2
    /\ \E i \in DOMAIN ips : ~IsIPv4(ips[i])
    /\ Cardinality(Launched) = 1

\* C10: for a literal target no forward lookup is made and no fatal error occurs,
\* and once resolved ips is that one address.
C10_LiteralResolvesToItself ==
    CLI.Target \in Literals =>
        /\ dnsLog = <<>>
        /\ ~FatalPrinted
        /\ exitCode # 1
        /\ pc \notin {"validate", "resolve"} =>
               /\ Len(ips) = 1
               /\ ips[1] = ParseIP(CLI.Target)
               /\ ips[1] # NilIP

\* a literal target past resolution, in a world whose DNS can fail
C10_Witness ==
    /\ CLI.Target \in Literals
    /\ <<>> \in DNSAnswers(env)
    /\ pc = "select"
    /\ totalIPs = 1

(***************************************************************************)
(* The order of the rendered Results.                                      *)
(***************************************************************************)
\* the launched task whose Result carries this address
TaskOf(ip) == CHOOSE i \in Launched : lookup[i].result.IP = ip

\* C11 as stated: after the done case the Results are rendered in the order of
\* the launch loop, whatever the order in which the tasks finished.
C11_RenderedInLaunchOrder ==
    CompletedNormally =>
        \A j, k \in DOMAIN Rendered :
            j < k => TaskOf(Rendered[j].text) < TaskOf(Rendered[k].text)

\* the Results that have left their tasks grow only at the end, by the Result of
\* the task that sends in this step; a receive moves none of them
SendsKeepOrder ==
    InTransit' # InTransit =>
        \E i \in Tasks :
            /\ lookup[i].pc = "send"
            /\ lookup'[i].pc = "sent"
            /\ InTransit' = Append(InTransit, lookup[i].result)

\* the done case prints the Results one after another in the order of their sends
RendersInSendOrder ==
    (pc = "select" /\ CompletedNormally') =>
        /\ resultChan = <<>>
        /\ Len(Rendered') = Len(InTransit)
        /\ \A k \in DOMAIN InTransit : Rendered'[k] = printResult(InTransit[k])[1]

\* C11, amended: the Results are rendered in the order in which their tasks sent
\* them on resultChan, the order of completion, which need not be the order of
\* the launch loop.
C11_RenderedInArrivalOrder == [][SendsKeepOrder /\ RendersInSendOrder]_vars

\* the task launched second was rendered first
C11_Witness ==
    /\ CompletedNormally
    /\ Len(Rendered) = 2
    /\ TaskOf(Rendered[1].text) = 2
    /\ TaskOf(Rendered[2].text) = 1

(***************************************************************************)
(* Termination.                                                            *)
(***************************************************************************)
\* a signal has arrived
Interrupted == handler \in {"cancel", "done"}

\* C12: a run that has resolved its addresses and is not interrupted reaches the
\* done case and exits, with no task, with one or two tasks, and with more tasks
\* than resultChan has room for: no send blocks for ever and the collector ends.
C12_CompletesNormally ==
    (pc \in {"launch", "select"}) ~> (Interrupted \/ CompletedNormally)

\* the long answer, completed: every Result rendered, the channel closed
C12_Witness ==
    /\ CompletedNormally
    /\ ~Interrupted
    /\ totalIPs = ChanCap + Overflow
    /\ Len(Rendered) = ChanCap + Overflow
    /\ chanClosed

\* C13: once the context is cancelled main exits, whether or not any lookupIP
\* goroutine, sub-lookup (the PTR lookup, which has no context, included), closer
\* or collector ever takes another step.
C13_CancelledExits == cancelled ~> (pc = "exit")

\* main has left through the ctx case while a PTR lookup was still outstanding
C13_Witness ==
    /\ pc = "exit"
    /\ Printed("Operation cancelled")
    /\ \E i \in Launched : lookup[i].pc = "wait" /\ lookup[i].ptr = "call"

(***************************************************************************)
(* Accesses to shared memory.                                              *)
(***************************************************************************)
\* this step is the IP-info goroutine of task i reading result.Error: the test of
\* line 165 or the argument of line 166
IPInfoReadsError(i) ==
    \/ lookup[i].org = "call" /\ lookup'[i].org \in {"new", "load"}
    \/ lookup[i].org = "load" /\ lookup'[i].org = "append"

\* this step is the I-line goroutine of task i reading result.Error: the test of
\* line 179 or the argument of line 180
ILineReadsError(i) ==
    \/ lookup[i].iline = "call" /\ lookup'[i].iline \in {"new", "load"}
    \/ lookup[i].iline = "load" /\ lookup'[i].iline = "append"

\* C14: a sub-lookup reads result.Error only when the other two sub-lookups of its
\* task, which may write it, have finished.
C14_NoReadWhileSiblingMayWrite ==
    [][\A i \in Launched :
          /\ IPInfoReadsError(i) => lookup[i].ptr = "done" /\ lookup[i].iline = "done"
          /\ ILineReadsError(i) => lookup[i].ptr = "done" /\ lookup[i].org = "done"]_vars

(***************************************************************************)
(* The progress line.                                                      *)
(***************************************************************************)
Ticked == progress.text = "Checking records... completed"

\* what a tick has displayed is processed of totalIPs, with processed between 0 and
\* totalIPs and totalIPs the number of launched tasks
CountInRange ==
    /\ processed \in 0..totalIPs
    /\ pc \in {"select", "exit"} => totalIPs = Cardinality(Launched)
    /\ Ticked => /\ progress.n = processed
                 /\ progress.of = totalIPs
                 /\ progress.n \in 0..progress.of

\* from one tick to the next the displayed count does not go down
CountGrows ==
    /\ processed' >= processed
    /\ (Ticked /\ Ticked') => progress'.n >= progress.n /\ progress'.of = progress.of

\* C15: at every tick the displayed count is between 0 and totalIPs, totalIPs is
\* the number of launched tasks, and the count never decreases.
C15_ProgressCountBounded == []CountInRange /\ [][CountGrows]_vars

\* a tick has displayed 1/2, and the second Result has since been collected
C15_Witness ==
    /\ pc = "select"
    /\ Ticked
    /\ progress.n = 1 /\ progress.of = 2
    /\ Len(results) = 2

(***************************************************************************)
(* The life of resultChan.                                                 *)
(***************************************************************************)
\* resultChan is closed at most once, by the closer, and when it is closed every
\* launched task has sent its Result and returned; no send has found it closed
ClosedAfterAllSends ==
    /\ closes \in {0, 1}
    /\ chanClosed <=> closes = 1
    /\ chanClosed <=> closer = "done"
    /\ chanClosed =>
           /\ pc \in {"select", "exit"}
           /\ wg = 0
           /\ \A i \in Launched : lookup[i].pc = "done"
           /\ Len(InTransit) = totalIPs
    /\ ~Printed("panic: send on closed channel")
    /\ exitCode # 2

\* a send happens on the open channel, and a close on the channel not yet closed
SendsAndCloseOnOpen ==
    /\ \A i \in Launched :
          (lookup[i].pc = "send" /\ i \in DOMAIN lookup' /\ lookup'[i].pc = "sent") =>
              ~chanClosed /\ ~chanClosed'
    /\ closes' # closes => ~chanClosed /\ closes' = closes + 1

\* C16: resultChan is closed only after every launched task has completed its
\* send, no task ever sends on the closed channel, and it is closed once.
C16_ClosedOnceAfterSends == []ClosedAfterAllSends /\ [][SendsAndCloseOnOpen]_vars

\* the long answer: resultChan closed after more sends than it has room for
C16_Witness ==
    /\ chanClosed
    /\ closes = 1
    /\ Cardinality(Launched) = ChanCap + Overflow
    /\ Len(results) > 0

\* this step is main reading results: len(results) at a tick (line 310) or the
\* range of the done case (line 305)
MainReadsResults ==
    /\ pc = "select"
    /\ \/ pc' = "select" /\ Ticked' /\ progress' # progress
       \/ CompletedNormally'

\* C17: main reads results only when the collector can append no more: after the
\* collector has left its loop and closed done, the one event that orders the
\* collector's appends before anything main does.
C17_ReadsAfterCollector == [][MainReadsResults => collector = "done"]_vars

(***************************************************************************)
(* The record type of a Result.                                            *)
(***************************************************************************)
\* the resolved address with this text
AddressOf(text) == CHOOSE j \in DOMAIN ips : IPString(ips[j]) = text

\* a launched task's Result carries the family of its address, in the task and on
\* its way to main, and each header printed is A for an IPv4 address and AAAA for
\* an IPv6 address
TagIsFamily ==
    /\ \A i \in Launched : lookup[i].result.IsIPv6 = ~IsIPv4(ips[i])
    /\ \A k \in DOMAIN InTransit :
          InTransit[k].IsIPv6 = ~IsIPv4(ips[AddressOf(InTransit[k].IP)])
    /\ \A k \in DOMAIN Rendered :
          /\ Rendered[k].type \in {"A", "AAAA"}
          /\ Rendered[k].type = "A" <=> IsIPv4(ips[AddressOf(Rendered[k].text)])
          /\ Rendered[k].type = "AAAA" <=> ~IsIPv4(ips[AddressOf(Rendered[k].text)])

\* no step changes the tag of a launched task's Result
TagFixed ==
    \A i \in Launched :
        i \in DOMAIN lookup' => lookup'[i].result.IsIPv6 = lookup[i].result.IsIPv6

\* a host name with one address of each family and no family flag
OneOfEachFamily ==
    /\ ~CLI.IPv4 /\ ~CLI.IPv6
    /\ Len(ips) = 2
    /\ Cardinality({j \in DOMAIN ips : IsIPv4(ips[j])}) = 1

\* after the done case it has two rendered Results, one A and one AAAA
BothFamiliesRendered ==
    (CompletedNormally /\ OneOfEachFamily) =>
        /\ Len(Rendered) = 2
        /\ {Rendered[k].type : k \in DOMAIN Rendered} = {"A", "AAAA"}

\* C18: the tag of a Result is set at launch from its address and never changes,
\* a Result is rendered A exactly for an IPv4 address and AAAA exactly for an
\* IPv6 address, and a host name with one address of each family and no flag
\* gives two rendered Results, one A and one AAAA.
C18_TagIsAddressFamily == [](TagIsFamily /\ BothFamiliesRendered) /\ [][TagFixed]_vars

\* an IPv6 address and a 16-byte IPv4 address, rendered AAAA and A
C18_Witness ==
    /\ CompletedNormally
    /\ OneOfEachFamily
    /\ ips = <<IP6, IP4long>>
    /\ Len(Rendered) = 2
    /\ \E k \in DOMAIN Rendered : Rendered[k].type = "A" /\ Rendered[k].text = IPString(IP4long)

(***************************************************************************)
(* What printResult prints.                                                *)
(***************************************************************************)
\* the lines printed for the Results, the handler's and main's notices left out
RecordLines == SelectSeq(stdout, LAMBDA l : l.line # "Notice")

\* the positions in RecordLines of the lines with this label
LinesOf(label) == {k \in DOMAIN RecordLines : RecordLines[k].line = label}

\* the section with this label is printed once, with this text, if present is
\* true, and not at all otherwise
Section(label, present, text) ==
    IF present
    THEN /\ Cardinality(LinesOf(label)) = 1
         /\ \A k \in LinesOf(label) : RecordLines[k].text = text
    ELSE LinesOf(label) = {}

\* the sections that are printed come in the order of this list
InOrder(labels) ==
    \A a, b \in DOMAIN labels :
        a < b => \A j \in LinesOf(labels[a]), k \in LinesOf(labels[b]) : j < k

\* C19: for the one Result of a run, the header line comes first and always, then
\* the PTR section iff PTR is non-empty, the country and organization lines iff
\* IPInfo is set, the I-line section iff ILine is non-empty and the error line iff
\* Error is set, in this order and followed by the empty line; data and error
\* are both shown when both are there.
C19_SectionsFollowFields ==
    (CompletedNormally /\ totalIPs = 1) =>
        LET r == results[1] IN
        /\ LinesOf("Record") = {1}
        /\ RecordLines[1].text = r.IP
        /\ Section("PTR Records", r.PTR # <<>>, r.PTR)
        /\ Section("Country", r.IPInfo # <<>>, IF r.IPInfo # <<>> THEN r.IPInfo[1].Country ELSE "")
        /\ Section("Organization", r.IPInfo # <<>>, IF r.IPInfo # <<>> THEN r.IPInfo[1].Org ELSE "")
        /\ Section("I-Line Servers", r.ILine # <<>>, r.ILine)
        /\ Section("Error", r.Error # <<>>, r.Error)
        /\ LinesOf("") = {Len(RecordLines)}
        /\ InOrder(<<"Record", "PTR Records", "Country", "Organization",
                     "I-Line Servers", "Error", "">>)
        /\ Len(RecordLines) =
               1 + Cardinality(LinesOf("PTR Records")) + Cardinality(LinesOf("Country"))
                 + Cardinality(LinesOf("Organization")) + Cardinality(LinesOf("I-Line Servers"))
                 + Cardinality(LinesOf("Error")) + 1

\* a Result with its PTR names and organization and with the error of its failed
\* I-line request, printed with all of them
C19_Witness ==
    /\ CompletedNormally
    /\ totalIPs = 1
    /\ results[1].PTR # <<>>
    /\ results[1].IPInfo # <<>>
    /\ results[1].ILine = <<>>
    /\ results[1].Error # <<>>
    /\ Len(RecordLines) = 6
    /\ LinesOf("PTR Records") = {2}
    /\ LinesOf("Error") = {5}

====
